---- MODULE Spec2Model ----
(***************************************************************************)
(* A model of maa-cli's MaaCore installer (installer/maa_core.rs) and of   *)
(* the CLI self-update configuration (config/cli/maa_cli.rs).              *)
(*                                                                         *)
(* Strings the program inspects are sequences of one-character strings,    *)
(* so that prefix tests, slicing, parsing and formatting are computed and  *)
(* not assumed.  Paths are sequences of components.                        *)
(***************************************************************************)
EXTENDS Integers, Sequences, FiniteSets, TLC

VARIABLES
    input,      \* a function called on its own: the argument of the call
    output,     \* a function called on its own: what it returned
    config,     \* Config of maa_cli.rs: [channel, api_url, download_url]
    latest,     \* history: the last value handed to each Config setter
    host,       \* [os, arch] the binary was compiled for
    lib,        \* library directory: [exists, files]
    res,        \* resource directory: [exists, files]
    cache,      \* cache directory: [exists, files]
    pc,         \* position inside the running install/update ("idle" if none)
    call,       \* arguments and locals of the running install/update
    hist,       \* history of the running (or last) operation
    result,     \* how the last operation ended ("none" before the first)
    nops        \* number of operations started so far

vars == <<input, output, config, latest, host, lib, res, cache, pc, call,
          hist, result, nops>>

----------------------------------------------------------------------------
(* Bounds of the model.                                                    *)

\* Largest asset size and largest cached file length, and largest number of
\* mirrors, given to Asset::download on its own.
MaxSize == 2
MaxMirrors == 2
\* Most assets in a manifest given to asset() on its own, and most
\* dot-separated parts in a version string given to version() on its own.
MaxAssets == 2
MaxParts == 3
\* Number of install/update operations in one run.
MaxOps == 2
\* Longest archive entry path given to extract_mapper on its own.
MaxDepth == 3
\* Number of setter calls on one Config.
MaxCalls == 3

----------------------------------------------------------------------------
(* Strings.                                                                *)

Digits == <<"0", "1", "2", "3", "4", "5", "6", "7", "8", "9">>

IsDigit(c) == \E i \in 1..10 : Digits[i] = c

\* The printable ASCII characters in code order, from 32 (space) to 126;
\* the grave accent (96), which a string of this language cannot hold, is
\* written "0x60".
AsciiPrintable ==
    <<" ", "!", "\"", "#", "$", "%", "&", "'", "(", ")", "*", "+", ",", "-",
      ".", "/", "0", "1", "2", "3", "4", "5", "6", "7", "8", "9", ":", ";",
      "<", "=", ">", "?", "@", "A", "B", "C", "D", "E", "F", "G", "H", "I",
      "J", "K", "L", "M", "N", "O", "P", "Q", "R", "S", "T", "U", "V", "W",
      "X", "Y", "Z", "[", "\\", "]", "^", "_", "0x60", "a", "b", "c", "d", "e",
      "f", "g", "h", "i", "j", "k", "l", "m", "n", "o", "p", "q", "r", "s",
      "t", "u", "v", "w", "x", "y", "z", "{", "|", "}", "~">>

\* The code point of a character; str's Ord compares by it.  Besides ASCII
\* the strings of the model hold "é" (U+00E9, two bytes in UTF-8).
CharRank(c) ==
    IF \E i \in 1..95 : AsciiPrintable[i] = c
    THEN 31 + (CHOOSE i \in 1..95 : AsciiPrintable[i] = c)
    ELSE CASE c = "\t" -> 9
           [] c = "\n" -> 10
           [] c = "\r" -> 13
           [] c = "é" -> 233

\* The characters an identifier of a pre-release tag or of build metadata
\* may hold: ASCII letters and digits (the codes 48..57, 65..90 and
\* 97..122) and "-".
IsIdentChar(c) ==
    \/ \E k \in (48..57) \cup (65..90) \cup (97..122) :
           AsciiPrintable[k - 31] = c
    \/ c = "-"

StartsWith(s, p) == Len(s) >= Len(p) /\ SubSeq(s, 1, Len(p)) = p

EndsWith(s, p) ==
    Len(s) >= Len(p) /\ SubSeq(s, Len(s) - Len(p) + 1, Len(s)) = p

Contains(s, p) ==
    \E i \in 1..(Len(s) + 1) :
        i + Len(p) - 1 <= Len(s) /\ SubSeq(s, i, i + Len(p) - 1) = p

\* Index of the first occurrence of character c in s, 0 if there is none.
IndexOf(s, c) ==
    IF \E i \in 1..Len(s) : s[i] = c
    THEN CHOOSE i \in 1..Len(s) : s[i] = c /\ \A j \in 1..(i - 1) : s[j] # c
    ELSE 0

\* s split at every occurrence of character c.
RECURSIVE Split(_, _)
Split(s, c) ==
    LET i == IndexOf(s, c) IN
    IF i = 0 THEN <<s>>
    ELSE <<SubSeq(s, 1, i - 1)>> \o Split(SubSeq(s, i + 1, Len(s)), c)

\* Decimal digits of n, as Display for u64 writes them.
RECURSIVE NatToStr(_)
NatToStr(n) ==
    IF n < 10 THEN <<Digits[n + 1]>>
    ELSE NatToStr(n \div 10) \o <<Digits[(n % 10) + 1]>>

----------------------------------------------------------------------------
(* semver::Version, as maa_core.rs uses it: parse, Display and Ord.        *)

\* A numeric identifier: digits only, not empty, no leading zero.
IsNumeric(s) ==
    /\ Len(s) >= 1
    /\ \A i \in 1..Len(s) : IsDigit(s[i])
    /\ (Len(s) > 1 => s[1] # "0")

AllDigits(s) == Len(s) >= 1 /\ \A i \in 1..Len(s) : IsDigit(s[i])

\* Lexical (ASCII) order of two identifiers: -1, 0 or 1.
RECURSIVE LexCmp(_, _)
LexCmp(s, t) ==
    IF s = <<>> /\ t = <<>> THEN 0
    ELSE IF s = <<>> THEN -1
    ELSE IF t = <<>> THEN 1
    ELSE IF CharRank(Head(s)) < CharRank(Head(t)) THEN -1
    ELSE IF CharRank(Head(s)) > CharRank(Head(t)) THEN 1
    ELSE LexCmp(Tail(s), Tail(t))

IntCmp(a, b) == IF a < b THEN -1 ELSE IF a > b THEN 1 ELSE 0

\* Two numbers written without leading zeros: the longer is the greater,
\* two of one length are in the order of their digits.
NumCmp(s, t) ==
    IF Len(s) # Len(t) THEN IntCmp(Len(s), Len(t)) ELSE LexCmp(s, t)

\* major, minor and patch are u64: a numeric identifier of at most
\* u64::MAX = 18446744073709551615.
IsU64(s) ==
    /\ IsNumeric(s)
    /\ NumCmp(s, <<"1", "8", "4", "4", "6", "7", "4", "4", "0", "7", "3", "7",
                   "0", "9", "5", "5", "1", "6", "1", "5">>) <= 0

\* A pre-release tag: dot-separated identifiers, none empty, a numeric one
\* without leading zero.
IsPreRelease(s) ==
    LET ids == Split(s, ".") IN
    \A k \in 1..Len(ids) :
        /\ Len(ids[k]) >= 1
        /\ \A i \in 1..Len(ids[k]) : IsIdentChar(ids[k][i])
        /\ (AllDigits(ids[k]) => IsNumeric(ids[k]))

\* Build metadata: dot-separated identifiers, none empty; leading zeros
\* are allowed.
IsBuildMetadata(s) ==
    LET ids == Split(s, ".") IN
    \A k \in 1..Len(ids) :
        /\ Len(ids[k]) >= 1
        /\ \A i \in 1..Len(ids[k]) : IsIdentChar(ids[k][i])

\* Version { major, minor, patch, pre, build }; the three numbers are held
\* as their decimal digits, which have no width.
MkVersionBuild(a, b, c, p, m) ==
    [major |-> NatToStr(a), minor |-> NatToStr(b), patch |-> NatToStr(c),
     pre |-> p, build |-> m]

\* A version without build metadata.
MkVersion(a, b, c, p) == MkVersionBuild(a, b, c, p, <<>>)

\* The three numbers, the pre-release tag and the build metadata, once
\* split.
ParseParts(nums, pre, tagged, build, built) ==
    IF /\ Len(nums) = 3
       /\ \A k \in 1..3 : IsU64(nums[k])
       /\ (tagged => IsPreRelease(pre))
       /\ (built => IsBuildMetadata(build))
    THEN [ok |-> TRUE,
          ver |-> [major |-> nums[1], minor |-> nums[2], patch |-> nums[3],
                   pre |-> pre, build |-> build]]
    ELSE [ok |-> FALSE]

\* The part before the build metadata, split at its first "-".
ParseAt(s, dash, build, built) ==
    IF dash = 0 THEN ParseParts(Split(s, "."), <<>>, FALSE, build, built)
    ELSE ParseParts(Split(SubSeq(s, 1, dash - 1), "."),
                    SubSeq(s, dash + 1, Len(s)), TRUE, build, built)

\* The string split at its first "+".
ParsePlus(s, plus) ==
    IF plus = 0 THEN ParseAt(s, IndexOf(s, "-"), <<>>, FALSE)
    ELSE ParseAt(SubSeq(s, 1, plus - 1),
                 IndexOf(SubSeq(s, 1, plus - 1), "-"),
                 SubSeq(s, plus + 1, Len(s)), TRUE)

\* Version::parse: MAJOR.MINOR.PATCH, then "-" and a pre-release tag, then
\* "+" and build metadata.
VersionParse(s) == ParsePlus(s, IndexOf(s, "+"))

\* Display for Version.
VersionDisplay(v) ==
    v.major \o <<".">> \o v.minor \o <<".">> \o v.patch
        \o (IF v.pre = <<>> THEN <<>> ELSE <<"-">> \o v.pre)
        \o (IF v.build = <<>> THEN <<>> ELSE <<"+">> \o v.build)

\* One pre-release identifier against another: numeric ones by value and
\* below alphanumeric ones, alphanumeric ones lexically.
IdentCmp(s, t) ==
    IF AllDigits(s) /\ AllDigits(t) THEN NumCmp(s, t)
    ELSE IF AllDigits(s) THEN -1
    ELSE IF AllDigits(t) THEN 1
    ELSE LexCmp(s, t)

RECURSIVE IdentsCmp(_, _)
IdentsCmp(ss, tt) ==
    IF ss = <<>> /\ tt = <<>> THEN 0
    ELSE IF ss = <<>> THEN -1
    ELSE IF tt = <<>> THEN 1
    ELSE LET c == IdentCmp(Head(ss), Head(tt)) IN
         IF c # 0 THEN c ELSE IdentsCmp(Tail(ss), Tail(tt))

\* A version without pre-release tag is above the same one with a tag.
PreCmp(p, q) ==
    IF p = <<>> /\ q = <<>> THEN 0
    ELSE IF p = <<>> THEN 1
    ELSE IF q = <<>> THEN -1
    ELSE IdentsCmp(Split(p, "."), Split(q, "."))

\* trim_start_matches('0')
RECURSIVE TrimZeros(_)
TrimZeros(s) ==
    IF s # <<>> /\ Head(s) = "0" THEN TrimZeros(Tail(s)) ELSE s

\* bytes().all(is_ascii_digit): true of the empty identifier too.
OnlyDigits(s) == \A i \in 1..Len(s) : IsDigit(s[i])

\* Two numeric identifiers of build metadata: by value, then by the
\* number of leading zeros.
BuildNumCmp(s, t) ==
    IF NumCmp(TrimZeros(s), TrimZeros(t)) # 0
    THEN NumCmp(TrimZeros(s), TrimZeros(t))
    ELSE IntCmp(Len(s), Len(t))

BuildIdentCmp(s, t) ==
    IF OnlyDigits(s) /\ OnlyDigits(t) THEN BuildNumCmp(s, t)
    ELSE IF OnlyDigits(s) THEN -1
    ELSE IF OnlyDigits(t) THEN 1
    ELSE LexCmp(s, t)

RECURSIVE BuildIdentsCmp(_, _)
BuildIdentsCmp(ss, tt) ==
    IF ss = <<>> /\ tt = <<>> THEN 0
    ELSE IF ss = <<>> THEN -1
    ELSE IF tt = <<>> THEN 1
    ELSE IF BuildIdentCmp(Head(ss), Head(tt)) # 0
    THEN BuildIdentCmp(Head(ss), Head(tt))
    ELSE BuildIdentsCmp(Tail(ss), Tail(tt))

\* Ord for Version: the fields in their order; build metadata identifier
\* by identifier, no metadata being one empty identifier, below every
\* other.
VersionCmp(v, w) ==
    IF v.major # w.major THEN NumCmp(v.major, w.major)
    ELSE IF v.minor # w.minor THEN NumCmp(v.minor, w.minor)
    ELSE IF v.patch # w.patch THEN NumCmp(v.patch, w.patch)
    ELSE IF PreCmp(v.pre, w.pre) # 0 THEN PreCmp(v.pre, w.pre)
    ELSE BuildIdentsCmp(Split(v.build, "."), Split(w.build, "."))

----------------------------------------------------------------------------
(* Results of fallible calls: Ok(v), Err(e), or a panic (unwrap, slicing). *)

Ok(v) == [tag |-> "ok", val |-> v]
Err(e) == [tag |-> "err", err |-> e]
Panic == [tag |-> "panic"]
Go == [tag |-> "go"]

----------------------------------------------------------------------------
(* The compilation target: cfg!(target_os), cfg!(target_arch) and the      *)
(* std::env::consts that depend on it.                                     *)

Hosts ==
    [os : {"macos", "linux", "windows", "freebsd"},
     arch : {"x86_64", "aarch64", "riscv64"}]

DLL_PREFIX(os) == IF os = "windows" THEN <<>> ELSE <<"l", "i", "b">>

DLL_SUFFIX(os) ==
    IF os = "macos" THEN <<".", "d", "y", "l", "i", "b">>
    ELSE IF os = "windows" THEN <<".", "d", "l", "l">>
    ELSE <<".", "s", "o">>

MAA_CORE_NAME(os) ==
    IF os = "macos"
    THEN <<"l", "i", "b", "M", "a", "a", "C", "o", "r", "e">>
             \o <<".", "d", "y", "l", "i", "b">>
    ELSE IF os = "windows"
    THEN <<"M", "a", "a", "C", "o", "r", "e", ".", "d", "l", "l">>
    ELSE <<"l", "i", "b", "M", "a", "a", "C", "o", "r", "e", ".", "s", "o">>

----------------------------------------------------------------------------
(* VersionJSON: [version, assets], an asset: [name, size, url, mirrors].   *)
(* The literal pieces of an asset file name are never inspected by the     *)
(* program, only compared whole, and are kept as one piece each.           *)

\* .unwrap()
Unwrap(r) == IF r.ok THEN Ok(r.ver) ELSE Panic

\* Mutant of VersionJSON_version: the whole string is parsed.
VersionJSON_version_NoStrip(vj) == Unwrap(VersionParse(vj.version))

\* Version::parse(&self.version[1..]).unwrap(): the slice from byte 1 on
\* panics on an empty string and inside a character ("é" takes two
\* bytes).
VersionJSON_version(vj) ==
    IF Len(vj.version) < 1 THEN Panic
    ELSE IF Head(vj.version) = "é" THEN Panic
    ELSE Unwrap(VersionParse(Tail(vj.version)))

\* format!("MAA-v{}-<target>", version)
AssetFileName(v, target) == <<"MAA-v">> \o VersionDisplay(v) \o <<target>>

\* The cfg! chain of name(), given what self.version() returned.
NameFor(h, version) ==
    IF version.tag = "panic" THEN Panic
    ELSE IF h.os = "macos"
    THEN Ok(AssetFileName(version.val, "-macos-runtime-universal.zip"))
    ELSE IF h.os = "linux"
    THEN IF h.arch = "x86_64"
         THEN Ok(AssetFileName(version.val, "-linux-x86_64.tar.gz"))
         ELSE IF h.arch = "aarch64"
         THEN Ok(AssetFileName(version.val, "-linux-aarch64.tar.gz"))
         ELSE Err("Unsupported architecture")
    ELSE IF h.os = "windows"
    THEN IF h.arch = "x86_64"
         THEN Ok(AssetFileName(version.val, "-win-x64.zip"))
         ELSE IF h.arch = "aarch64"
         THEN Ok(AssetFileName(version.val, "-win-arm64.zip"))
         ELSE Err("Unsupported architecture")
    ELSE Err("Unsupported platform")

VersionJSON_name(h, vj) == NameFor(h, VersionJSON_version(vj))

\* iter().find(|asset| asset.name == asset_name)
RECURSIVE Find(_, _)
Find(assets, asset_name) ==
    IF assets = <<>> THEN Err("Asset not found")
    ELSE IF Head(assets).name = asset_name THEN Ok(Head(assets))
    ELSE Find(Tail(assets), asset_name)

\* The last asset of that name.
RECURSIVE FindLast(_, _)
FindLast(assets, asset_name) ==
    IF assets = <<>> THEN Err("Asset not found")
    ELSE IF assets[Len(assets)].name = asset_name
    THEN Ok(assets[Len(assets)])
    ELSE FindLast(SubSeq(assets, 1, Len(assets) - 1), asset_name)

\* Mutant of FindNamed: the last asset of that name is taken.
FindNamed_Last(assets, asset_name) ==
    IF asset_name.tag # "ok" THEN asset_name
    ELSE FindLast(assets, asset_name.val)

\* let asset_name = self.name()?; then the search.
FindNamed(assets, asset_name) ==
    IF asset_name.tag # "ok" THEN asset_name
    ELSE Find(assets, asset_name.val)

VersionJSON_asset(h, vj) == FindNamed(vj.assets, VersionJSON_name(h, vj))

----------------------------------------------------------------------------
(* get_version_json: the request and the deserialization of its answer.    *)
(* A JSON value is a string, a number (held as the literal the body        *)
(* spells), an array or an object (a function from its keys); a body that  *)
(* is no JSON is [t |-> "invalid"].                                        *)

JString(s) == [t |-> "string", s |-> s]
JNumber(n) == [t |-> "number", n |-> n]
JArray(a) == [t |-> "array", a |-> a]
JObject(o) == [t |-> "object", o |-> o]

\* The derived Deserialize reads a struct of n fields from an object, by
\* its keys (other keys are ignored), or from an array of exactly n
\* elements, by position.  Struct j has field k, its i-th, of JSON type t.
HasField(j, k, i, n, t) ==
    \/ j.t = "object" /\ k \in DOMAIN j.o /\ j.o[k].t = t
    \/ j.t = "array" /\ Len(j.a) = n /\ j.a[i].t = t

Field(j, k, i) == IF j.t = "object" THEN j.o[k] ELSE j.a[i]

\* The number a u64 literal spells.
RECURSIVE U64Value(_)
U64Value(s) ==
    (CHOOSE d \in 0..9 : Digits[d + 1] = s[Len(s)])
        + (IF Len(s) = 1 THEN 0
           ELSE 10 * U64Value(SubSeq(s, 1, Len(s) - 1)))

\* Deserialize for Asset: name, size (u64: an integer literal without
\* sign, fraction or exponent, at most u64::MAX), browser_download_url and
\* mirrors (strings) are required.
IsAssetJson(j) ==
    /\ HasField(j, "name", 1, 4, "string")
    /\ HasField(j, "size", 2, 4, "number")
    /\ IsU64(Field(j, "size", 2).n)
    /\ HasField(j, "browser_download_url", 3, 4, "string")
    /\ HasField(j, "mirrors", 4, 4, "array")
    /\ \A i \in 1..Len(Field(j, "mirrors", 4).a) :
           Field(j, "mirrors", 4).a[i].t = "string"

AssetFromJson(j) ==
    [name |-> Field(j, "name", 1).s,
     size |-> U64Value(Field(j, "size", 2).n),
     browser_download_url |-> Field(j, "browser_download_url", 3).s,
     mirrors |-> [i \in 1..Len(Field(j, "mirrors", 4).a) |->
                     Field(j, "mirrors", 4).a[i].s]]

\* Deserialize for VersionJSON and VersionDetails.
IsVersionJson(j) ==
    /\ HasField(j, "version", 1, 2, "string")
    /\ \/ HasField(j, "details", 2, 2, "object")
       \/ HasField(j, "details", 2, 2, "array")
    /\ HasField(Field(j, "details", 2), "assets", 1, 1, "array")
    /\ \A i \in 1..Len(Field(Field(j, "details", 2), "assets", 1).a) :
           IsAssetJson(Field(Field(j, "details", 2), "assets", 1).a[i])

\* The manifest as the model keeps it: [version, assets].
VersionFromJson(j) ==
    [version |-> Field(j, "version", 1).s,
     assets |-> [i \in 1..Len(Field(Field(j, "details", 2), "assets", 1).a)
                    |-> AssetFromJson(
                            Field(Field(j, "details", 2), "assets", 1).a[i])]]

\* get_version_json: MAA_API_URL (api_url_var: "unset", "utf8" or
\* "not_utf8") is unwrapped to a string, the request is sent, and the body
\* of the answer is deserialized.
get_version_json(api_url_var, response) ==
    IF api_url_var = "not_utf8" THEN Panic
    ELSE IF response.kind # "body" THEN Err("Failed to get version json")
    ELSE IF ~IsVersionJson(response.body)
    THEN Err("Failed to parse version json")
    ELSE Ok(VersionFromJson(response.body))

----------------------------------------------------------------------------
(* Paths (std::path::Component) and extract_mapper.                        *)

Normal(name) == [kind |-> "Normal", name |-> name]
ParentDir == [kind |-> "ParentDir", name |-> <<>>]
RootDir == [kind |-> "RootDir", name |-> <<>>]

RESOURCE == <<"r", "e", "s", "o", "u", "r", "c", "e">>

\* dir.join(rest): the destination tree and the path below it.
Join(dir, rest) == [base |-> dir, rest |-> rest]

Some(d) == [some |-> TRUE, dest |-> d]
None == [some |-> FALSE]

\* Mutant of IsLibraryName: the suffix must end the name.
IsLibraryName_Ends(os, s) ==
    StartsWith(s, DLL_PREFIX(os)) /\ EndsWith(s, DLL_SUFFIX(os))

\* s.starts_with(DLL_PREFIX) && s.contains(DLL_SUFFIX)
IsLibraryName(os, s) ==
    StartsWith(s, DLL_PREFIX(os)) /\ Contains(s, DLL_SUFFIX(os))

RECURSIVE extract_mapper(_, _, _, _, _)
extract_mapper(os, path, lib_dir, resource_dir, resource) ==
    IF path = <<>> THEN None
    ELSE LET c == Head(path) IN
         IF c.kind = "Normal"
         THEN IF resource /\ c.name = RESOURCE
              THEN Some(Join(resource_dir, Tail(path)))
              ELSE IF IsLibraryName(os, c.name)
              THEN Some(Join(lib_dir, <<c>>))
              ELSE extract_mapper(os, Tail(path), lib_dir, resource_dir,
                                  resource)
         ELSE extract_mapper(os, Tail(path), lib_dir, resource_dir, resource)

----------------------------------------------------------------------------
(* Directories (crate::dirs, Ensure): a directory is [exists, files].      *)
(* A file of the library or resource directory is [path, ver]: its path    *)
(* below the directory and the version of the package it came from.  A     *)
(* file of the cache directory is [name, len, content].                    *)

NoDir == [exists |-> FALSE, files |-> {}]
EmptyDir == [exists |-> TRUE, files |-> {}]

\* Ensure::ensure: create the directory if it is missing; `made` is whether
\* the file system lets it be created.  Returns the outcome and the
\* directory as it is left.
Ensure(d, made) ==
    IF d.exists THEN [out |-> Ok("dir"), dir |-> d]
    ELSE IF made THEN [out |-> Ok("dir"), dir |-> EmptyDir]
    ELSE [out |-> Err("Failed to create directory"), dir |-> d]

\* Ensure::ensure_clean: wipe the directory, then create it; `wiped` and
\* `made` are whether the file system lets it be wiped and be created.  A
\* wipe that fails leaves the directory as it was, a creation that fails
\* leaves no directory.
EnsureClean(d, wiped, made) ==
    IF d.exists /\ ~wiped
    THEN [out |-> Err("Failed to remove directory"), dir |-> d]
    ELSE IF ~made
    THEN [out |-> Err("Failed to create directory"), dir |-> NoDir]
    ELSE [out |-> Ok("dir"), dir |-> EmptyDir]

\* Writing a file replaces the one that has its path.
WriteFile(d, path, ver) ==
    [exists |-> TRUE,
     files |-> {f \in d.files : f.path # path}
                   \cup {[path |-> path, ver |-> ver]}]

WriteCache(d, name, len, content) ==
    [exists |-> TRUE,
     files |-> {f \in d.files : f.name # name}
                   \cup {[name |-> name, len |-> len, content |-> content]}]

CacheFile(d, name) == CHOOSE f \in d.files : f.name = name

Junk == [kind |-> "junk", ver |-> MkVersion(0, 0, 0, <<>>)]
Package(v) == [kind |-> "archive", ver |-> v]

\* The entries of the release archive of version ver, in archive order:
\* the package of 1.0.0 lists the library first, the others list the
\* resources first.
ArchiveEntries(os, ver) ==
    IF ver = MkVersion(1, 0, 0, <<>>)
    THEN << <<Normal(MAA_CORE_NAME(os))>>,
            <<Normal(RESOURCE), Normal(<<"a">>)>>,
            <<Normal(<<"R", "E", "A", "D", "M", "E">>)>> >>
    ELSE << <<Normal(RESOURCE), Normal(<<"a">>)>>,
            <<Normal(MAA_CORE_NAME(os))>>,
            <<Normal(<<"R", "E", "A", "D", "M", "E">>)>> >>

----------------------------------------------------------------------------
(* MaaCore::version: run "maa-run version" and parse what it prints.       *)

\* crate::maa_run::command(..).output(): the installed MaaCore library
\* prints "MaaCore v<version>\n"; without the library the command fails.
RunVersionCommand(os, libdir) ==
    LET core == {f \in libdir.files : f.path = <<Normal(MAA_CORE_NAME(os))>>}
    IN  IF core = {} THEN Err("Failed to run maa-run version")
        ELSE Ok(<<"M", "a", "a", "C", "o", "r", "e", " ", "v">>
                    \o VersionDisplay((CHOOSE f \in core : TRUE).ver)
                    \o <<"\n">>)

\* Version::parse(ver_str).context("Failed to parse version")
ParsedVersion(r) ==
    IF r.ok THEN Ok(r.ver) ELSE Err("Failed to parse version")

\* The bytes of a string in UTF-8; a byte that is no ASCII character is
\* written "0x..", and stands for itself.
RECURSIVE Bytes(_)
Bytes(s) ==
    IF s = <<>> THEN <<>>
    ELSE (IF Head(s) = "é" THEN <<"0xC3", "0xA9">> ELSE <<Head(s)>>)
             \o Bytes(Tail(s))

Utf8Cons(c, r) == IF r.ok THEN [ok |-> TRUE, str |-> <<c>> \o r.str] ELSE r

\* std::str::from_utf8: the bytes as a string, unless they are no UTF-8:
\* a lead byte without its continuation byte, a continuation byte on its
\* own, or 0xFF.
RECURSIVE from_utf8(_)
from_utf8(b) ==
    IF b = <<>> THEN [ok |-> TRUE, str |-> <<>>]
    ELSE IF Head(b) = "0xC3"
    THEN IF Len(b) >= 2 /\ b[2] = "0xA9"
         THEN Utf8Cons("é", from_utf8(SubSeq(b, 3, Len(b))))
         ELSE [ok |-> FALSE]
    ELSE IF Head(b) \in {"0xA9", "0xFF"} THEN [ok |-> FALSE]
    ELSE Utf8Cons(Head(b), from_utf8(Tail(b)))

\* from_utf8(..).context("Failed to parse output")?, then Version::parse.
ParseOutput(ver_str) ==
    IF ~ver_str.ok THEN Err("Failed to parse output")
    ELSE ParsedVersion(VersionParse(ver_str.str))

\* &output[9..output.len() - 1]: the slice of the bytes panics when the
\* output has fewer than ten.
SliceOutput(stdout) ==
    IF Len(stdout) < 10 THEN Panic
    ELSE ParseOutput(from_utf8(SubSeq(stdout, 10, Len(stdout) - 1)))

\* Remove "MaaCore v" prefix and "\n" suffix, then Version::parse.
ParseStdout(run) ==
    IF run.tag # "ok" THEN run
    ELSE SliceOutput(Bytes(run.val))

MaaCore_version(os, libdir) == ParseStdout(RunVersionCommand(os, libdir))

----------------------------------------------------------------------------
(* Asset::download and download_mirrors.                                   *)

\* download_mirrors: the primary URL, then each mirror in listed order,
\* up to the first that delivers; `up` is the set of sources that deliver.
\* The process may be killed while the kill-th source is contacted (0: it
\* is not).  Returns the sources contacted, whether the last of them
\* delivered and whether the process was killed there.
RECURSIVE TryInOrder(_, _, _)
TryInOrder(sources, up, kill) ==
    IF sources = <<>>
    THEN [contacted |-> <<>>, ok |-> FALSE, killed |-> FALSE]
    ELSE IF kill = 1
    THEN [contacted |-> <<Head(sources)>>, ok |-> FALSE, killed |-> TRUE]
    ELSE IF Head(sources) \in up
    THEN [contacted |-> <<Head(sources)>>, ok |-> TRUE, killed |-> FALSE]
    ELSE LET r == TryInOrder(Tail(sources), up,
                             IF kill > 1 THEN kill - 1 ELSE 0) IN
         [contacted |-> <<Head(sources)>> \o r.contacted, ok |-> r.ok,
          killed |-> r.killed]

download_mirrors(url, mirrors, up, kill) ==
    TryInOrder(<<url>> \o mirrors, up, kill)

\* Mutant of DownloadSources: the mirrors are left out.
DownloadSources_NoMirrors(asset) ==
    [url |-> asset.browser_download_url, mirrors |-> <<>>]

\* let url = &self.browser_download_url; let mirrors = self.mirrors.clone();
DownloadSources(asset) ==
    [url |-> asset.browser_download_url, mirrors |-> asset.mirrors]

\* path.exists() is fs::metadata(path).is_ok(): there is a file at the path
\* and its metadata can be read when line 238 asks (exists_ok).
Path_exists(d, name, exists_ok) ==
    exists_ok /\ \E f \in d.files : f.name = name

\* match path.metadata() { Ok(metadata) => metadata.len(), Err(_) => 0 }:
\* metadata_ok is whether the metadata can be read when line 239 asks.
FileSize(file, metadata_ok) == IF metadata_ok THEN file.len ELSE 0

\* Mutant of CacheHit: a file at the path is taken whatever its length.
CacheHit_AnySize(cachedir, asset, env) ==
    Path_exists(cachedir, asset.name, env.exists_ok)

\* path.exists() and file_size == size
CacheHit(cachedir, asset, env) ==
    /\ Path_exists(cachedir, asset.name, env.exists_ok)
    /\ FileSize(CacheFile(cachedir, asset.name), env.metadata_ok) = asset.size

\* What a transfer that broke off, by failure or kill, may leave at the
\* path: the file as it was, or the bytes written so far.
PartialLens(size) == {k \in 0..size : k < size \/ size = 0}

\* Archive::try_from(path): the archive of the file's content, or an error
\* when the file cannot be opened as one (opens).
Archive_try_from(content, opens) ==
    IF opens THEN Ok(content) ELSE Err("Failed to open archive")

\* What the environment decides for one Asset::download: exists_ok and
\* metadata_ok (whether the metadata of the path can be read at line 238
\* and at line 239), client_ok and runtime_ok (whether the HTTP client and
\* the runtime can be built), up (the sources that deliver), partial (the
\* bytes left by a transfer that broke off, -1: the file is as it was) and
\* opens (whether the file opens as an archive); served is what each
\* source sends, a transfer that completes leaving the declared number of
\* bytes.  The process may be killed inside the call: while the kill-th
\* of the asset's sources (the URL, then the mirrors) is contacted, all
\* before it having failed (kill, 0: it is not), or after a source
\* delivered and before the call returns (late).  A reading the code
\* cannot take is kept at one value.
DownloadEnvs(asset, served) ==
    LET listed == <<asset.browser_download_url>> \o asset.mirrors IN
    {e \in [exists_ok : BOOLEAN, metadata_ok : BOOLEAN,
            client_ok : BOOLEAN, runtime_ok : BOOLEAN,
            up : SUBSET DOMAIN served, served : {served},
            partial : {-1} \cup PartialLens(asset.size), opens : BOOLEAN,
            kill : 0..Len(listed), late : BOOLEAN] :
        /\ (~e.exists_ok => e.metadata_ok)
        /\ (~e.client_ok => e.runtime_ok)
        /\ (~(e.client_ok /\ e.runtime_ok) =>
                e.up = {} /\ e.kill = 0 /\ e.partial = -1)
        /\ (e.up # {} /\ e.kill = 0 => e.partial = -1)
        /\ (\A i \in 1..(e.kill - 1) : listed[i] \notin e.up)
        /\ (e.kill # 0 => e.opens)
        /\ (e.late => e.up # {} /\ e.kill = 0 /\ e.opens)}

\* Asset::download that leaves the cache directory as it is: outcome r.
NotFetched(r, cachedir, hit) ==
    [out |-> r, cache |-> cachedir, contacted |-> <<>>, hit |-> hit]

\* lines 258-260: what download_mirrors returned, r, and the archive of
\* the file it wrote.  A process killed inside the call returns nothing
\* ("interrupted") and leaves what was written by then.
Fetched(asset, cachedir, r, env) ==
    IF r.ok
    THEN [out |-> IF env.late THEN [tag |-> "interrupted"]
                  ELSE Archive_try_from(
                           env.served[r.contacted[Len(r.contacted)]],
                           env.opens),
          cache |-> WriteCache(cachedir, asset.name, asset.size,
                               env.served[r.contacted[Len(r.contacted)]]),
          contacted |-> r.contacted, hit |-> FALSE]
    ELSE [out |-> IF r.killed THEN [tag |-> "interrupted"]
                  ELSE Err("Failed to download"),
          cache |-> IF env.partial < 0 THEN cachedir
                    ELSE WriteCache(cachedir, asset.name, env.partial, Junk),
          contacted |-> r.contacted, hit |-> FALSE]

\* Asset::download in cache directory `cachedir`.  Returns the outcome
\* ("interrupted" when the process was killed inside the call), the cache
\* directory, the sources contacted and whether the cached file was taken.
Asset_download(asset, cachedir, env) ==
    IF CacheHit(cachedir, asset, env)
    THEN NotFetched(Archive_try_from(CacheFile(cachedir, asset.name).content,
                                     env.opens),
                    cachedir, TRUE)
    ELSE IF ~env.client_ok
    THEN NotFetched(Err("Failed to build reqwest client"), cachedir, FALSE)
    ELSE IF ~env.runtime_ok
    THEN NotFetched(Err("Failed to create tokio runtime"), cachedir, FALSE)
    ELSE Fetched(asset, cachedir,
                 download_mirrors(DownloadSources(asset).url,
                                  DownloadSources(asset).mirrors, env.up,
                                  env.kill),
                 env)

----------------------------------------------------------------------------
(* MaaCore::install and MaaCore::update.                                   *)

NoManifest == [version |-> <<>>, assets |-> <<>>]
NoAsset ==
    [name |-> <<>>, size |-> 0, browser_download_url |-> <<"none", 0>>,
     mirrors |-> <<>>]

Primary == <<"primary", 0>>
Mirror(i) == <<"mirror", i>>

MkAsset(name, size, nmirrors) ==
    [name |-> name, size |-> size, browser_download_url |-> Primary,
     mirrors |-> [i \in 1..nmirrors |-> Mirror(i)]]

SourcesOf(asset) ==
    {asset.browser_download_url}
        \cup {asset.mirrors[i] : i \in 1..Len(asset.mirrors)}

\* Mutant of UpdateSteps: the directories are cleaned before the download.
UpdateSteps_CleanFirst ==
    <<"get_version_json", "version", "ensure_cache", "asset", "clean_lib",
      "clean_res", "download", "extract">>

\* Mutant of UpdateSteps: the directories are cleaned after the extraction.
UpdateSteps_CleanLast ==
    <<"get_version_json", "version", "ensure_cache", "asset", "download",
      "extract", "clean_lib", "clean_res">>

\* Mutant of UpdateSteps: the library directory is not cleaned.
UpdateSteps_KeepLib ==
    <<"get_version_json", "version", "ensure_cache", "asset", "download",
      "clean_res", "extract">>

\* Mutant of UpdateSteps: the resource directory is not cleaned.
UpdateSteps_KeepRes ==
    <<"get_version_json", "version", "ensure_cache", "asset", "download",
      "clean_lib", "extract">>

\* Mutant of UpdateSteps: the asset is resolved before the installed
\* version is queried.
UpdateSteps_ResolveFirst ==
    <<"get_version_json", "asset", "version", "ensure_cache", "download",
      "clean_lib", "clean_res", "extract">>

\* The steps of update (lines 99-119): the manifest, the installed version
\* and the comparison, the cache directory, the asset, the download, then
\* both directories cleaned, then the extraction.
UpdateSteps ==
    <<"get_version_json", "version", "ensure_cache", "asset", "download",
      "clean_lib", "clean_res", "extract">>

\* Mutant of InstallSteps: the archive is downloaded and not extracted.
InstallSteps_DownloadOnly ==
    <<"ensure_lib", "ensure_cache", "clean_res", "get_version_json", "asset",
      "download">>

\* Mutant of InstallSteps: the library directory is cleaned before the
\* extraction.
InstallSteps_CleanLib ==
    <<"ensure_lib", "ensure_cache", "clean_res", "get_version_json", "asset",
      "download", "clean_lib", "extract">>

\* Mutant of InstallSteps: the resource directory is cleaned after the
\* manifest is fetched.
InstallSteps_FetchFirst ==
    <<"ensure_lib", "ensure_cache", "get_version_json", "clean_res", "asset",
      "download", "extract">>

\* The steps of install (lines 79-93): the library directory and the check
\* for an installed library, the cache directory, the resource directory
\* cleaned, the manifest, the asset, the download, the extraction.
InstallSteps ==
    <<"ensure_lib", "ensure_cache", "clean_res", "get_version_json", "asset",
      "download", "extract">>

\* Mutant of UpToDate: equal versions are not up to date.
UpToDate_Strict(current_version, new_version) ==
    VersionCmp(current_version, new_version) > 0

\* current_version >= new_version
UpToDate(current_version, new_version) ==
    VersionCmp(current_version, new_version) >= 0

\* lib_dir.join(MAA_CORE_NAME).exists() && !force.  exists() is
\* fs::metadata(path).is_ok(): the file is in the directory and its
\* metadata can be read when line 81 asks (exists_ok).
AlreadyInstalled(os, libdir, force, exists_ok) ==
    /\ exists_ok
    /\ \E f \in libdir.files : f.path = <<Normal(MAA_CORE_NAME(os))>>
    /\ ~force

\* lines 100-105: the installed version, the manifest's version, the
\* comparison.  Go: update carries on.
UpdateCompares(current_version, new_version) ==
    IF current_version.tag # "ok" THEN current_version
    ELSE IF new_version.tag # "ok" THEN new_version
    ELSE IF UpToDate(current_version.val, new_version.val)
    THEN Ok("up to date")
    ELSE Go

\* lines 79-83: the library directory as ensure left it, then the check
\* for an installed library.  Go: install carries on.
InstallChecks(os, lib_dir, force, exists_ok) ==
    IF lib_dir.out.tag # "ok" THEN lib_dir.out
    ELSE IF AlreadyInstalled(os, lib_dir.dir, force, exists_ok)
    THEN Err("MaaCore already exists")
    ELSE Go

----------------------------------------------------------------------------
(* Config of config/cli/maa_cli.rs:                                        *)
(* [channel, api_url, download_url, components].                           *)

Channels == {"Stable", "Beta", "Alpha"}

\* Display for the configuration's Channel: the lowercase name.
ChannelDisplay(channel) ==
    CASE channel = "Stable" -> "stable"
      [] channel = "Beta" -> "beta"
      [] channel = "Alpha" -> "alpha"

\* normalize_url: the URL with "/" at its end, added if it is missing.
normalize_url(url) == IF EndsWith(url, <<"/">>) THEN url ELSE url \o <<"/">>

\* Mutant of set_download_url: the API base is overwritten as well.
set_download_url_Both(cfg, download_url) ==
    [cfg EXCEPT !.download_url = download_url, !.api_url = download_url]

set_channel(cfg, channel) == [cfg EXCEPT !.channel = channel]

set_api_url(cfg, api_url) == [cfg EXCEPT !.api_url = api_url]

set_download_url(cfg, download_url) ==
    [cfg EXCEPT !.download_url = download_url]

\* format!("{}{}.json", normalize_url(&self.api_url), self.channel())
Config_api_url(cfg) ==
    normalize_url(cfg.api_url) \o <<ChannelDisplay(cfg.channel)>>
        \o <<".json">>

\* format!("{}{}/{}", normalize_url(&self.download_url), tag, name)
Config_download_url(cfg, tag, name) ==
    normalize_url(cfg.download_url) \o tag \o <<"/">> \o name

\* default_api_url, default_download_url without the environment variable.
DefaultApiUrl ==
    <<"https://github.com/MaaAssistantArknights/maa-cli/raw/version", "/">>
DefaultDownloadUrl ==
    <<"https://github.com/MaaAssistantArknights/maa-cli/releases/download",
      "/">>

----------------------------------------------------------------------------
(* The installer as a state machine.  An operation runs from "idle"        *)
(* through its steps back to "idle"; the process may be killed at any      *)
(* step.                                                                   *)

\* The versions of the packages that exist: two releases, and a
\* pre-release of the later one.
MainVersions ==
    {MkVersion(0, 0, 0, <<>>), MkVersion(1, 0, 0, <<"a">>),
     MkVersion(1, 0, 0, <<>>)}

\* The manifests the server may answer with: for a version, no asset or
\* the asset of the x86_64 Linux package, with one mirror; and one with a
\* malformed version.
MainManifests ==
    UNION {{[version |-> <<"v">> \o VersionDisplay(v), assets |-> a] :
                a \in {<<>>}
                         \cup {<<MkAsset(AssetFileName(
                                             v, "-linux-x86_64.tar.gz"),
                                         size, 1)>> : size \in {0, 1}}} :
               v \in MainVersions}
        \cup {[version |-> <<"v", "1">>, assets |-> <<>>]}

\* The body the server sends for a manifest: its structs as objects, or
\* (seq) as arrays of their fields.
AssetJson(asset, seq) ==
    IF seq
    THEN JArray(<<JString(asset.name), JNumber(NatToStr(asset.size)),
                  JString(asset.browser_download_url),
                  JArray([i \in 1..Len(asset.mirrors) |->
                             JString(asset.mirrors[i])])>>)
    ELSE JObject([name |-> JString(asset.name),
                  size |-> JNumber(NatToStr(asset.size)),
                  browser_download_url |->
                      JString(asset.browser_download_url),
                  mirrors |-> JArray([i \in 1..Len(asset.mirrors) |->
                                         JString(asset.mirrors[i])])])

ManifestJson(m, seq) ==
    IF seq
    THEN JArray(<<JString(m.version),
                  JArray(<<JArray([i \in 1..Len(m.assets) |->
                                      AssetJson(m.assets[i], seq)])>>)>>)
    ELSE JObject([version |-> JString(m.version),
                  details |->
                      JObject([assets |->
                          JArray([i \in 1..Len(m.assets) |->
                                     AssetJson(m.assets[i], seq)])])])

\* Bodies that are no manifest: no JSON, a version that is a number, no
\* details, an asset without size, an asset whose size is negative, has a
\* fraction or is above u64::MAX, and an array of three elements.
MalformedBodies ==
    <<[t |-> "invalid"],
      JObject([version |-> JNumber(<<"1">>),
               details |-> JObject([assets |-> JArray(<<>>)])]),
      JObject([version |-> JString(<<"v", "1", ".", "0", ".", "0">>)]),
      JObject([version |-> JString(<<"v", "1", ".", "0", ".", "0">>),
               details |->
                   JObject([assets |->
                       JArray(<<JObject([name |-> JString(<<"x">>)])>>)])])>>
        \o [i \in 1..3 |->
               JObject([version |-> JString(<<"v", "1", ".", "0", ".", "0">>),
                        details |->
                            JArray(<<JArray(<<JArray(
                                <<JString(<<"x">>),
                                  JNumber(<<<<"-", "1">>, <<"1", ".", "5">>,
                                            <<"1", "8", "4", "4", "6", "7",
                                              "4", "4", "0", "7", "3", "7",
                                              "0", "9", "5", "5", "1", "6",
                                              "1", "6">>>>[i]),
                                  JString(<<"u">>), JArray(<<>>)>>)>>)>>)])]
        \o <<JArray(<<JString(<<"v", "1", ".", "0", ".", "0">>),
                      JObject([assets |-> JArray(<<>>)]), JArray(<<>>)>>)>>

\* What the request may meet: no answer, a manifest, or another body.
MainResponses ==
    <<[kind |-> "error"]>>
        \o [i \in 1..Len(MalformedBodies) |->
               [kind |-> "body", body |-> MalformedBodies[i]]]

\* What get_version_json may return to install and update.
FetchOutcomes ==
    UNION {{get_version_json(e, MainResponses[i]) :
                i \in 1..Len(MainResponses)}
               \cup {get_version_json(
                         e, [kind |-> "body", body |-> ManifestJson(m, seq)]) :
                         m \in MainManifests, seq \in BOOLEAN} :
               e \in {"unset", "utf8", "not_utf8"}}

\* An installed package of version v; with `stray`, beside a library file
\* that no package holds.
InstalledLib(os, v, stray) ==
    [exists |-> TRUE,
     files |-> {[path |-> <<Normal(MAA_CORE_NAME(os))>>, ver |-> v]}
               \cup (IF stray
                     THEN {[path |-> <<Normal(<<"l", "i", "b", "o", ".", "s",
                                               "o">>)>>,
                            ver |-> v]}
                     ELSE {})]

InstalledRes(v) ==
    [exists |-> TRUE,
     files |-> {[path |-> <<Normal(<<"a">>)>>, ver |-> v],
                [path |-> <<Normal(<<"o">>)>>, ver |-> v]}]

NoCall ==
    [op |-> "none", force |-> FALSE, no_resource |-> FALSE,
     version_json |-> NoManifest, asset |-> NoAsset, archive |-> Junk,
     steps |-> <<>>, idx |-> 0]

NoResult ==
    [op |-> "none", tag |-> "none", err |-> "", at |-> "none",
     uptodate |-> FALSE, version_json |-> NoManifest, no_resource |-> FALSE,
     force |-> FALSE]

\* The last operation ended, by failure or kill, after it cleared a
\* directory; it then had not extracted every entry.
Broken == result.tag \notin {"none", "ok"} /\ hist.cleared # {}

\* The history of an operation that starts in the current state.
NewHist ==
    [lib0 |-> lib, res0 |-> res, cache0 |-> cache,
     fetched |-> FALSE, looked |-> FALSE, hit |-> FALSE,
     downloaded |-> FALSE, contacted |-> <<>>, cleared |-> {},
     extracted |-> 0, repair |-> Broken, unseen |-> FALSE]

NoHist ==
    [lib0 |-> NoDir, res0 |-> NoDir, cache0 |-> NoDir,
     fetched |-> FALSE, looked |-> FALSE, hit |-> FALSE,
     downloaded |-> FALSE, contacted |-> <<>>, cleared |-> {},
     extracted |-> 0, repair |-> FALSE, unseen |-> FALSE]

Init ==
    /\ input = [fn |-> "none"]
    /\ output = [tag |-> "none"]
    /\ config = [channel |-> "none"]
    /\ latest = [channel |-> "none"]
    /\ host \in {[os |-> "linux", arch |-> "x86_64"],
                 [os |-> "linux", arch |-> "riscv64"]}
    /\ \/ lib = NoDir /\ res = NoDir
       \/ \E v \in MainVersions :
              lib = InstalledLib(host.os, v, TRUE) /\ res = InstalledRes(v)
    /\ cache = NoDir
    /\ pc = "idle"
    /\ call = NoCall
    /\ hist = NoHist
    /\ result = NoResult
    /\ nops = 0

\* How an operation that ran as `c` ended: outcome r at step `at`.
Ended(c, r, at, uptodate) ==
    [op |-> c.op, tag |-> r.tag, err |-> IF r.tag = "err" THEN r.err ELSE "",
     at |-> at, uptodate |-> uptodate, version_json |-> c.version_json,
     no_resource |-> c.no_resource, force |-> c.force]

\* The step after the current one, or the end of the operation.
StepDone(c) ==
    IF Len(c.steps) > 1
    THEN /\ pc' = c.steps[2]
         /\ call' = [c EXCEPT !.steps = Tail(c.steps)]
         /\ result' = NoResult
    ELSE /\ pc' = "idle"
         /\ call' = NoCall
         /\ result' = Ended(c, Ok("done"), "end", FALSE)

\* The operation ends at step `at` with outcome r.
StepEnds(c, r, at, uptodate) ==
    /\ pc' = "idle"
    /\ call' = NoCall
    /\ result' = Ended(c, r, at, uptodate)

\* The operation carries on with its first step.
StepsBegin(c) ==
    /\ pc' = Head(c.steps)
    /\ call' = c
    /\ result' = NoResult

\* An outcome r of a step: the operation carries on or ends there.
StepReturns(c, r, uptodate) ==
    IF r.tag \in {"ok", "go"} /\ ~uptodate THEN StepDone(c)
    ELSE StepEnds(c, r, pc, uptodate)

\* maa update is started.
UpdateBegin ==
    /\ pc = "idle"
    /\ nops < MaxOps
    /\ \E no_resource \in BOOLEAN :
           StepsBegin([NoCall EXCEPT !.op = "update",
                                     !.no_resource = no_resource,
                                     !.steps = UpdateSteps])
    /\ hist' = NewHist
    /\ nops' = nops + 1
    /\ UNCHANGED <<input, output, config, latest, host, lib, res, cache>>

\* maa install is started.
InstallBegin ==
    /\ pc = "idle"
    /\ nops < MaxOps
    /\ \E force \in BOOLEAN, no_resource \in BOOLEAN :
           StepsBegin([NoCall EXCEPT !.op = "install", !.force = force,
                                     !.no_resource = no_resource,
                                     !.steps = InstallSteps])
    /\ hist' = NewHist
    /\ nops' = nops + 1
    /\ UNCHANGED <<input, output, config, latest, host, lib, res, cache>>

\* get_version_json(self.channel)?
GetVersionJson ==
    /\ pc = "get_version_json"
    /\ \E fetched \in FetchOutcomes :
           StepReturns([call EXCEPT !.version_json =
                            IF fetched.tag = "ok" THEN fetched.val
                            ELSE NoManifest],
                       fetched, FALSE)
    /\ hist' = [hist EXCEPT !.fetched = TRUE]
    /\ UNCHANGED <<input, output, config, latest, host, lib, res, cache,
                   nops>>

\* update, lines 100-105: self.version(dirs)?, version_json.version() and
\* the comparison.
QueryVersion ==
    /\ pc = "version"
    /\ \E r \in {UpdateCompares(MaaCore_version(host.os, lib),
                                VersionJSON_version(call.version_json))} :
           StepReturns(call, r, r = Ok("up to date"))
    /\ UNCHANGED <<input, output, config, latest, host, lib, res, cache,
                   hist, nops>>

\* install, lines 79-83: dirs.library().ensure()? and the check for an
\* installed library; exists_ok is whether the metadata of the library
\* file can be read when line 81 asks.  The history keeps whether the
\* check let the install pass only because it could not be read.
EnsureLib ==
    /\ pc = "ensure_lib"
    /\ \E made \in BOOLEAN, exists_ok \in BOOLEAN :
        \E e \in {Ensure(lib, made)} :
            /\ lib' = e.dir
            /\ hist' = [hist EXCEPT !.unseen =
                            /\ InstallChecks(host.os, e, call.force, TRUE)
                                   # Go
                            /\ InstallChecks(host.os, e, call.force,
                                             exists_ok) = Go]
            /\ StepReturns(call,
                           InstallChecks(host.os, e, call.force, exists_ok),
                           FALSE)
    /\ UNCHANGED <<input, output, config, latest, host, res, cache, nops>>

\* dirs.cache().ensure()?
EnsureCache ==
    /\ pc = "ensure_cache"
    /\ \E made \in BOOLEAN :
        \E e \in {Ensure(cache, made)} :
            /\ cache' = e.dir
            /\ StepReturns(call, e.out, FALSE)
    /\ UNCHANGED <<input, output, config, latest, host, lib, res, hist,
                   nops>>

\* version_json.asset()?
ResolveAsset ==
    /\ pc = "asset"
    /\ \E a \in {VersionJSON_asset(host, call.version_json)} :
           StepReturns([call EXCEPT !.asset = IF a.tag = "ok" THEN a.val
                                              ELSE NoAsset],
                       a, FALSE)
    /\ UNCHANGED <<input, output, config, latest, host, lib, res, cache,
                   hist, nops>>

\* asset.download(cache_dir, t)?; every source serves the package of the
\* manifest's version.  A process killed inside the call ends the
\* operation there, with the cache as the call left it.
Download ==
    /\ pc = "download"
    /\ \E env \in DownloadEnvs(
                       call.asset,
                       [s \in SourcesOf(call.asset) |->
                           Package(VersionJSON_version(
                                       call.version_json).val)]) :
        \E d \in {Asset_download(call.asset, cache, env)} :
            /\ cache' = d.cache
            /\ hist' = [hist EXCEPT !.looked = TRUE, !.hit = d.hit,
                                    !.contacted = d.contacted,
                                    !.downloaded = (d.out.tag = "ok")]
            /\ StepReturns([call EXCEPT !.archive =
                                IF d.out.tag = "ok" THEN d.out.val ELSE Junk],
                           d.out, FALSE)
    /\ UNCHANGED <<input, output, config, latest, host, lib, res, nops>>

\* dirs.library().ensure_clean()?; the directory counts as cleared when
\* it was wiped.
CleanLib ==
    /\ pc = "clean_lib"
    /\ \E wiped \in BOOLEAN, made \in BOOLEAN :
        \E e \in {EnsureClean(lib, wiped, made)} :
            /\ lib' = e.dir
            /\ hist' = [hist EXCEPT !.cleared =
                            IF e.out.tag = "ok" \/ e.dir # lib
                            THEN @ \cup {"lib"} ELSE @]
            /\ StepReturns(call, e.out, FALSE)
    /\ UNCHANGED <<input, output, config, latest, host, res, cache, nops>>

\* dirs.resource().ensure_clean()?
CleanRes ==
    /\ pc = "clean_res"
    /\ \E wiped \in BOOLEAN, made \in BOOLEAN :
        \E e \in {EnsureClean(res, wiped, made)} :
            /\ res' = e.dir
            /\ hist' = [hist EXCEPT !.cleared =
                            IF e.out.tag = "ok" \/ e.dir # res
                            THEN @ \cup {"res"} ELSE @]
            /\ StepReturns(call, e.out, FALSE)
    /\ UNCHANGED <<input, output, config, latest, host, lib, cache, nops>>

\* The directory after an entry mapped to m is written, if it is `base`.
Extracted(dir, base, m, ver) ==
    IF m.some /\ m.dest.base = base THEN WriteFile(dir, m.dest.rest, ver)
    ELSE dir

\* archive.extract(..): one entry of the archive; an archive that cannot
\* be read fails the extraction.
Extract ==
    /\ pc = "extract"
    /\ IF call.archive.kind # "archive"
       THEN /\ StepEnds(call, Err("Failed to extract"), pc, FALSE)
            /\ UNCHANGED <<lib, res, hist>>
       ELSE \E m \in {extract_mapper(
                          host.os,
                          ArchiveEntries(host.os,
                                         call.archive.ver)[call.idx + 1],
                          "lib_dir", "resource_dir", ~call.no_resource)} :
                /\ lib' = Extracted(lib, "lib_dir", m, call.archive.ver)
                /\ res' = Extracted(res, "resource_dir", m, call.archive.ver)
                /\ hist' = [hist EXCEPT !.extracted = call.idx + 1]
                /\ IF call.idx + 1
                        < Len(ArchiveEntries(host.os, call.archive.ver))
                   THEN /\ pc' = pc
                        /\ call' = [call EXCEPT !.idx = call.idx + 1]
                        /\ result' = NoResult
                   ELSE StepDone(call)
    /\ UNCHANGED <<input, output, config, latest, host, cache, nops>>

\* The process is killed in the middle of an operation, before the call
\* it has come to (a kill inside Asset::download is an outcome of
\* Download).
Interrupt ==
    /\ pc # "idle"
    /\ pc' = "idle"
    /\ call' = NoCall
    /\ result' = Ended(call, [tag |-> "interrupted"], pc, FALSE)
    /\ UNCHANGED <<input, output, config, latest, host, lib, res, cache,
                   hist, nops>>

Next ==
    \/ UpdateBegin
    \/ InstallBegin
    \/ GetVersionJson
    \/ QueryVersion
    \/ EnsureLib
    \/ EnsureCache
    \/ ResolveAsset
    \/ Download
    \/ CleanLib
    \/ CleanRes
    \/ Extract
    \/ Interrupt

Spec == Init /\ [][Next]_vars

----------------------------------------------------------------------------
(* The installer's claims.                                                 *)

\* The operation that runs, or the last one that ran.
CurOp == IF pc = "idle" THEN result.op ELSE call.op
CurManifest ==
    IF pc = "idle" THEN result.version_json ELSE call.version_json
CurForce == IF pc = "idle" THEN result.force ELSE call.force

HasCore(dir) ==
    \E f \in dir.files : f.path = <<Normal(MAA_CORE_NAME(host.os))>>

\* C1: as long as the asset download of an update has not returned
\* successfully (the manifest fetch, the version query, the asset
\* resolution or the download failed or was interrupted, or the download is
\* still to come), nothing was cleared and the library and resource
\* directories hold exactly what they held when the update started.
UpdateClearsOnlyAfterDownload ==
    (CurOp = "update" /\ ~hist.downloaded) =>
        /\ hist.cleared = {}
        /\ lib = hist.lib0
        /\ res = hist.res0

\* C1 witness: an update whose download failed over a working install.
UpdateDownloadFailed ==
    /\ pc = "idle"
    /\ result.op = "update"
    /\ result.tag = "err"
    /\ result.at = "download"
    /\ hist.contacted # <<>>
    /\ HasCore(lib)
    /\ res.files # {}

\* The installed version an operation found when it started.
Installed0 == MaaCore_version(host.os, hist.lib0)
ManifestVersion == VersionJSON_version(CurManifest)

\* C2: an update that fetched a manifest whose version is not above the
\* installed one (equal included) goes no further than the version query:
\* unless it is killed there it ends with success and reports up-to-date;
\* it contacts no source, does not look into the cache and leaves the
\* cache, library and resource directories as they were.
UpdateUpToDateIsNoOp ==
    (/\ CurOp = "update"
     /\ CurManifest # NoManifest
     /\ Installed0.tag = "ok"
     /\ ManifestVersion.tag = "ok"
     /\ VersionCmp(Installed0.val, ManifestVersion.val) >= 0) =>
        /\ pc \in {"idle", "version"}
        /\ pc = "idle" =>
               \/ result.tag = "ok" /\ result.uptodate
               \/ result.tag = "interrupted" /\ result.at = "version"
        /\ hist.contacted = <<>>
        /\ ~hist.looked
        /\ ~hist.downloaded
        /\ hist.cleared = {}
        /\ hist.extracted = 0
        /\ lib = hist.lib0
        /\ res = hist.res0
        /\ cache = hist.cache0

\* C2 witness: an update that found the installed version equal to the
\* manifest's.
UpdateFoundEqualVersion ==
    /\ pc = "idle"
    /\ result.op = "update"
    /\ result.uptodate
    /\ Installed0.tag = "ok"
    /\ ManifestVersion.tag = "ok"
    /\ Installed0.val = ManifestVersion.val

\* C3 as stated: an install without force over a library directory that
\* holds the MaaCore library goes no further than the check of line 81:
\* unless it is killed before, it fails with "already exists"; it fetches
\* no manifest, contacts no source and leaves the three directories as
\* they were.  It fails when the metadata of the library file cannot be
\* read at line 81: exists() is then false and install carries on.
InstallRefusesExisting ==
    (CurOp = "install" /\ ~CurForce /\ HasCore(hist.lib0)) =>
        /\ pc \in {"idle", "ensure_lib"}
        /\ pc = "idle" =>
               \/ result.tag = "err" /\ result.err = "MaaCore already exists"
               \/ result.tag = "interrupted" /\ result.at = "ensure_lib"
        /\ ~hist.fetched
        /\ ~hist.looked
        /\ hist.contacted = <<>>
        /\ hist.cleared = {}
        /\ hist.extracted = 0
        /\ lib = hist.lib0
        /\ res = hist.res0
        /\ cache = hist.cache0

\* What the version query and the comparison of an update run now against
\* manifest vj return.
Rerun(vj) ==
    UpdateCompares(MaaCore_version(host.os, lib), VersionJSON_version(vj))

\* C9: an update that found the installed version below the manifest's
\* and succeeded got the archive from a source or from the cache, cleared
\* both directories and extracted every entry; the version query now
\* reports the manifest's version, and an update run now against the same
\* manifest reports up-to-date at its comparison (and so, by C2, changes
\* nothing).
UpdateInstallsManifestVersion ==
    (/\ pc = "idle"
     /\ result.op = "update"
     /\ result.tag = "ok"
     /\ Installed0.tag = "ok"
     /\ ManifestVersion.tag = "ok"
     /\ VersionCmp(Installed0.val, ManifestVersion.val) < 0) =>
        /\ hist.downloaded
        /\ hist.looked
        /\ (hist.hit \/ hist.contacted # <<>>)
        /\ hist.cleared = {"lib", "res"}
        /\ hist.extracted
               = Len(ArchiveEntries(host.os, ManifestVersion.val))
        /\ MaaCore_version(host.os, lib) = Ok(ManifestVersion.val)
        /\ Rerun(result.version_json) = Ok("up to date")

\* C9 witness: a successful update from a lower version.
UpdateSucceeded ==
    /\ pc = "idle"
    /\ result.op = "update"
    /\ result.tag = "ok"
    /\ ~result.uptodate
    /\ HasCore(hist.lib0)
    /\ HasCore(lib)

\* The asset resolution of the current manifest on this host.
CurAsset == VersionJSON_asset(host, CurManifest)

\* An update that fetched a manifest whose asset resolution fails has
\* ended and was not killed.
UpdateEndedWithoutAsset ==
    /\ pc = "idle"
    /\ result.op = "update"
    /\ result.tag # "interrupted"
    /\ result.version_json # NoManifest
    /\ CurAsset.tag = "err"

\* C11 as stated: update resolves the asset before it queries the
\* installed version, so every update that fetched a manifest whose asset
\* resolution fails ends with that failure, whatever is installed.
UpdateResolvesBeforeQuery ==
    UpdateEndedWithoutAsset =>
        /\ result.tag = "err"
        /\ result.err = CurAsset.err

\* C11, amended: update queries the installed version, reads the
\* manifest's version and compares them before it resolves the asset.  An
\* update that fetched a manifest whose asset resolution fails ends with
\* the version query's error when the query fails, with success and
\* up-to-date when the installed version is not below the manifest's, and
\* with the asset resolution's error only when the installed version is
\* below the manifest's (and the cache directory could be made); in no
\* case does it touch the library and resource directories.
UpdateQueriesBeforeResolve ==
    UpdateEndedWithoutAsset =>
        /\ lib = hist.lib0
        /\ res = hist.res0
        /\ IF Installed0.tag # "ok"
           THEN /\ result.tag = "err"
                /\ result.err = Installed0.err
                /\ result.at = "version"
           ELSE IF VersionCmp(Installed0.val, ManifestVersion.val) >= 0
           THEN result.tag = "ok" /\ result.uptodate
           ELSE /\ result.tag = "err"
                /\ \/ result.at = "asset" /\ result.err = CurAsset.err
                   \/ /\ result.at = "ensure_cache"
                      /\ result.err = "Failed to create directory"

\* C11 witness: an update reported up-to-date against a manifest that
\* holds no asset for this host.
UpdateUpToDateWithoutAsset ==
    /\ pc = "idle"
    /\ result.op = "update"
    /\ result.tag = "ok"
    /\ result.uptodate
    /\ result.version_json # NoManifest
    /\ CurAsset.tag = "err"

\* What extract_mapper answers for the entries of the archive of version
\* ver, and the files that are thereby routed to directory `base`.
Routes(ver, resource) ==
    {extract_mapper(host.os, ArchiveEntries(host.os, ver)[i], "lib_dir",
                    "resource_dir", resource) :
        i \in 1..Len(ArchiveEntries(host.os, ver))}

RoutedTo(base, ver, resource) ==
    {[path |-> m.dest.rest, ver |-> ver] :
        m \in {r \in Routes(ver, resource) : r.some /\ r.dest.base = base}}

\* The complete installed state of version ver: every library file of the
\* archive is in the library directory, the resource directory holds the
\* archive's resources (none when they were skipped) and nothing else, and
\* the version query reports ver.
Complete(ver, no_resource) ==
    /\ RoutedTo("lib_dir", ver, ~no_resource) \subseteq lib.files
    /\ res.exists
    /\ res.files = RoutedTo("resource_dir", ver, ~no_resource)
    /\ MaaCore_version(host.os, lib) = Ok(ver)

\* The operation ended well and left the complete installed state of the
\* manifest's version.
Repaired ==
    /\ result.tag = "ok"
    /\ ~result.uptodate
    /\ hist.extracted = Len(ArchiveEntries(host.os, ManifestVersion.val))
    /\ Complete(ManifestVersion.val, result.no_resource)

\* The operation ended for a reason outside it: it was killed, the
\* manifest could not be fetched or is malformed, holds no asset for the
\* host, a directory could not be made or wiped, the client or the runtime
\* could not be built, no source delivered, or the archive could not be
\* opened or read.
EndedFromOutside ==
    \/ result.tag \in {"interrupted", "panic"}
    \/ /\ result.tag = "err"
       /\ result.err \in {"Failed to get version json",
                          "Failed to parse version json", "Asset not found",
                          "Unsupported platform", "Unsupported architecture",
                          "Failed to create directory",
                          "Failed to remove directory",
                          "Failed to build reqwest client",
                          "Failed to create tokio runtime",
                          "Failed to download", "Failed to open archive",
                          "Failed to extract"}

Unchanged == lib = hist.lib0 /\ res = hist.res0

\* C13 as stated: an install without force or an update that runs after an
\* operation that ended, by failure or kill, after clearing a directory and
\* before extracting everything, re-extracts the archive and leaves the
\* complete installed state, when the manifest it fetches (if it fetches
\* one) is well formed and holds the host's asset, unless it ends for a
\* reason outside it.
RepairByInstallOrUpdate ==
    (/\ hist.repair
     /\ pc = "idle"
     /\ result.op = "update" \/ (result.op = "install" /\ ~result.force)
     /\ \/ ~hist.fetched
        \/ ManifestVersion.tag = "ok" /\ CurAsset.tag = "ok") =>
        Repaired \/ EndedFromOutside

\* C13, amended: after such an operation an install with force repairs;
\* an install without force is refused, and changes nothing, when the
\* library file is there and line 81 can read its metadata, and repairs
\* when the file is not there or its metadata cannot be read; an update
\* fails at the version query when the library file is not there, reports
\* up-to-date and changes nothing when the installed version is not below
\* the manifest's, and repairs otherwise; each unless it is killed or, where
\* it is to repair, ends for a reason outside it.
RepairAfterBrokenOperation ==
    (hist.repair /\ pc = "idle" /\ result.tag # "interrupted") =>
        IF result.op = "install"
        THEN IF ~result.force /\ HasCore(hist.lib0) /\ ~hist.unseen
             THEN /\ result.tag = "err"
                  /\ result.err = "MaaCore already exists"
                  /\ Unchanged
             ELSE Repaired \/ EndedFromOutside
        ELSE IF ~hist.fetched \/ result.version_json = NoManifest
        THEN EndedFromOutside /\ Unchanged
        ELSE IF Installed0.tag # "ok"
        THEN result.tag = "err" /\ result.err = Installed0.err /\ Unchanged
        ELSE IF ManifestVersion.tag # "ok"
        THEN result.tag = "panic" /\ Unchanged
        ELSE IF VersionCmp(Installed0.val, ManifestVersion.val) >= 0
        THEN result.tag = "ok" /\ result.uptodate /\ Unchanged
        ELSE Repaired \/ EndedFromOutside

\* C13 witness: an install with force repaired what an operation had left
\* with the library file in place and the rest incomplete.
RepairedByForcedInstall ==
    /\ hist.repair
    /\ pc = "idle"
    /\ result.op = "install"
    /\ result.force
    /\ HasCore(hist.lib0)
    /\ hist.res0.files = {}
    /\ Repaired

\* The files of dir whose path no file of `written` has.
NotOverwritten(dir, written) ==
    {f \in dir.files : \A g \in written : g.path # f.path}

\* An update that found a newer version and succeeded.
Updated ==
    /\ pc = "idle"
    /\ result.op = "update"
    /\ result.tag = "ok"
    /\ ~result.uptodate

\* C15: after an update that found a newer version and succeeded, the
\* library directory and the resource directory hold exactly the files
\* that extract_mapper routed there from the new archive, and no file that
\* was in either directory before the update is left: both were cleared,
\* and a path that was there before is there now only as the file the
\* new archive holds for it.
UpdateReplacesWholesale ==
    Updated =>
        /\ lib.files = RoutedTo("lib_dir", ManifestVersion.val,
                                ~result.no_resource)
        /\ res.files = RoutedTo("resource_dir", ManifestVersion.val,
                                ~result.no_resource)
        /\ hist.cleared = {"lib", "res"}
        /\ \A f \in (lib.files \cap hist.lib0.files)
                      \cup (res.files \cap hist.res0.files) :
               f.ver = ManifestVersion.val

\* C15 witness: an update with resources over an install that held a
\* library file and a resource file the new archive does not hold.
UpdateDroppedOldFiles ==
    /\ Updated
    /\ ~result.no_resource
    /\ \E f \in hist.lib0.files : \A g \in lib.files : g.path # f.path
    /\ \E f \in hist.res0.files : \A g \in res.files : g.path # f.path
    /\ res.files # {}

\* An operation that failed at the manifest fetch, the asset resolution or
\* the download.
FailedBeforeExtract(op) ==
    /\ pc = "idle"
    /\ result.op = op
    /\ result.tag \in {"err", "panic"}
    /\ hist.fetched
    /\ result.at \in {"get_version_json", "asset", "download"}

\* C17: an install with force over an existing install that fails at the
\* manifest fetch, the asset resolution or the download has cleared the
\* resource directory and nothing else: the resource directory is empty
\* and the library directory holds the files it held; an update that fails
\* there leaves both directories as they were.
InstallClearsResourcesBeforeFetch ==
    /\ (FailedBeforeExtract("install") /\ result.force
            /\ HasCore(hist.lib0)) =>
           /\ res = EmptyDir
           /\ lib = hist.lib0
           /\ hist.cleared = {"res"}
    /\ (FailedBeforeExtract("update") /\ HasCore(hist.lib0)) =>
           /\ res = hist.res0
           /\ lib = hist.lib0
           /\ hist.cleared = {}

\* C17 witness: an install with force over an install with resources
\* failed at the manifest fetch.
ForcedInstallFailedAtFetch ==
    /\ FailedBeforeExtract("install")
    /\ result.force
    /\ result.err = "Failed to get version json"
    /\ HasCore(lib)
    /\ hist.res0.files # {}
    /\ res.files = {}

\* An install or an update that found a newer version, succeeded.
Installed ==
    /\ pc = "idle"
    /\ result.op \in {"install", "update"}
    /\ result.tag = "ok"
    /\ ~result.uptodate

\* C18: after a successful install, or update that found a newer version,
\* that skipped the resources, the resource directory exists and is empty,
\* whatever it held before.
SkippingResourcesEmptiesThem ==
    (Installed /\ result.no_resource) =>
        /\ res.exists
        /\ res.files = {}

\* C18 witness: an update that skipped the resources over an install that
\* had resources.
UpdateSkippedResources ==
    /\ Updated
    /\ result.no_resource
    /\ hist.res0.files # {}
    /\ res = EmptyDir
    /\ HasCore(lib)

\* An install with force over an existing install, succeeded.
Reinstalled ==
    /\ pc = "idle"
    /\ result.op = "install"
    /\ result.force
    /\ result.tag = "ok"
    /\ HasCore(hist.lib0)

\* C19: after a successful install with force over an existing install,
\* whatever the two versions are, the library directory holds the library
\* files of the manifest's version and every file it held before whose path
\* no archive entry was written to, and nothing else; the version query
\* reports the manifest's version.
ForcedInstallKeepsLibraryFiles ==
    Reinstalled =>
        /\ lib.files =
               RoutedTo("lib_dir", ManifestVersion.val, ~result.no_resource)
                   \cup NotOverwritten(
                            hist.lib0,
                            RoutedTo("lib_dir", ManifestVersion.val,
                                     ~result.no_resource))
        /\ MaaCore_version(host.os, lib) = ManifestVersion

\* C19 witness: an install with force of a version below the installed
\* one; a library file of the earlier install is still there.
ForcedInstallOfLowerVersion ==
    /\ Reinstalled
    /\ Installed0.tag = "ok"
    /\ VersionCmp(ManifestVersion.val, Installed0.val) < 0
    /\ \E f \in lib.files : f \in hist.lib0.files /\ f.ver = Installed0.val
    /\ HasCore(lib)

----------------------------------------------------------------------------
(* Calls of the pure functions on their own: the argument is drawn in the  *)
(* initial state and the call stores what the function returns.            *)

\* The installer at rest, while a function is looked at on its own.
MainIdle ==
    /\ host = [os |-> "linux", arch |-> "x86_64"]
    /\ lib = NoDir
    /\ res = NoDir
    /\ cache = NoDir
    /\ pc = "idle"
    /\ call = NoCall
    /\ hist = NoHist
    /\ result = NoResult
    /\ nops = 0

ConfigIdle ==
    /\ config = [channel |-> "none"]
    /\ latest = [channel |-> "none"]

mainvars == <<host, lib, res, cache, pc, call, hist, result, nops>>

----------------------------------------------------------------------------
(* VersionJSON::version on its own.                                        *)

\* s1 "." s2 "." ... for a sequence of strings.
RECURSIVE JoinDots(_)
JoinDots(ss) ==
    IF Len(ss) = 1 THEN ss[1]
    ELSE ss[1] \o <<".">> \o JoinDots(Tail(ss))

\* The version strings a manifest may carry, well formed and not: a first
\* character, dot-separated segments, and a tail.
VersionStrings ==
    {f \o JoinDots(ss) \o t :
        f \in {<<>>, <<"v">>, <<"x">>, <<"1">>, <<"é">>},
        ss \in UNION {[1..n -> {<<>>, <<"0">>, <<"1">>, <<"0", "1">>, <<"a">>,
                                <<"1", "2">>}] : n \in 1..MaxParts},
        t \in {<<>>, <<"-", "a">>, <<"-">>, <<"-", "0", "1">>, <<"-", "1">>,
               <<"-", "B", "e">>, <<"+", "0", "1">>, <<"-", "a", "+", "b">>,
               <<"+">>}}

InitVersion ==
    /\ MainIdle
    /\ ConfigIdle
    /\ \E s \in VersionStrings :
        input = [fn |-> "version", vj |-> [version |-> s, assets |-> <<>>]]
    /\ output = [tag |-> "none"]

\* version_json.version()
VersionCall ==
    /\ input.fn = "version"
    /\ output.tag = "none"
    /\ output' = VersionJSON_version(input.vj)
    /\ UNCHANGED <<input, config, latest>>
    /\ UNCHANGED mainvars

NextVersion == VersionCall

SpecVersion == InitVersion /\ [][NextVersion]_vars

\* The versions the strings above can spell.
SpelledNumbers == {0, 1, 2, 12}
SpelledTags ==
    {[pre |-> <<>>, build |-> <<>>], [pre |-> <<"a">>, build |-> <<>>],
     [pre |-> <<"1">>, build |-> <<>>], [pre |-> <<"B", "e">>, build |-> <<>>],
     [pre |-> <<>>, build |-> <<"0", "1">>],
     [pre |-> <<"a">>, build |-> <<"b">>]}
SpelledVersions ==
    {MkVersionBuild(a, b, c, t.pre, t.build) :
        a \in SpelledNumbers, b \in SpelledNumbers, c \in SpelledNumbers,
        t \in SpelledTags}

\* The version that string s spells, if it spells one.
Spells(s, v) == s = VersionDisplay(v)
IsSpelled(s) == \E v \in SpelledVersions : Spells(s, v)

\* C7 as stated: "vX.Y.Z" gives X.Y.Z, and the call fails for every string
\* that does not begin with "v" and for every string whose part after the
\* "v" is not a semantic version.
VersionRequiresLeadingV ==
    output.tag # "none" =>
        LET s == input.vj.version IN
        /\ \A v \in SpelledVersions :
               s = <<"v">> \o VersionDisplay(v) => output = Ok(v)
        /\ ~StartsWith(s, <<"v">>) => output.tag = "panic"
        /\ (StartsWith(s, <<"v">>) /\ ~IsSpelled(Tail(s))) =>
               output.tag = "panic"

\* C7, amended: the call drops the first byte of the string, whatever it
\* is, and returns the semantic version the rest spells; it fails exactly
\* when the string is empty, when its first character is longer than one
\* byte, or when the rest is no semantic version.
VersionDropsFirstByte ==
    output.tag # "none" =>
        LET s == input.vj.version IN
        /\ \A v \in SpelledVersions :
               (s # <<>> /\ Head(s) # "é" /\ Spells(Tail(s), v)) =>
                   output = Ok(v)
        /\ (s = <<>> \/ Head(s) = "é" \/ ~IsSpelled(Tail(s))) =>
               output.tag = "panic"

\* C7 witness: a version returned for a string that begins with "x".
VersionReturnedWithoutV ==
    /\ output.tag = "ok"
    /\ Head(input.vj.version) = "x"
    /\ output.val = MkVersion(1, 0, 12, <<"a">>)

----------------------------------------------------------------------------
(* VersionJSON::asset on its own, for every compilation target.            *)

\* The manifests: a version string made of a first character ("v",
\* another letter, a digit, the two-byte "é", or none) and a rest that is
\* a semantic version or not, and a list of assets.  The names that assets
\* carry: the package names of
\* version 1.0.0 for the five targets, one of another version, and a file
\* that is no package; assets of the same name differ in their size.
AssetLists ==
    UNION {[1..n ->
              {MkAsset(name, size, 0) :
                  name \in
                      {AssetFileName(MkVersion(1, 0, 0, <<>>), t) :
                          t \in {"-macos-runtime-universal.zip",
                                 "-linux-x86_64.tar.gz",
                                 "-linux-aarch64.tar.gz", "-win-x64.zip",
                                 "-win-arm64.zip"}}
                          \cup {AssetFileName(MkVersion(0, 1, 0, <<"a">>),
                                              "-linux-x86_64.tar.gz"),
                                <<"checksums.txt">>},
                  size \in 1..2}] : n \in 0..MaxAssets}

InitAsset ==
    /\ MainIdle
    /\ ConfigIdle
    /\ \E h \in Hosts, a \in AssetLists,
          f \in {<<>>, <<"v">>, <<"x">>, <<"1">>, <<"é">>},
          t \in {<<>>, <<"1">>, <<"1", ".", "0", ".", "0">>,
                 <<"0", ".", "1", ".", "0", "-", "a">>} :
        input = [fn |-> "asset", h |-> h,
                 vj |-> [version |-> f \o t, assets |-> a]]
    /\ output = [tag |-> "none"]

\* version_json.asset()
AssetCall ==
    /\ input.fn = "asset"
    /\ output.tag = "none"
    /\ output' = VersionJSON_asset(input.h, input.vj)
    /\ UNCHANGED <<input, config, latest>>
    /\ UNCHANGED mainvars

NextAsset == AssetCall

SpecAsset == InitAsset /\ [][NextAsset]_vars

\* The naming scheme, as a table: the end of the package name per target,
\* "" for a target without a rule.
TargetSuffix(h) ==
    CASE h.os = "macos" -> "-macos-runtime-universal.zip"
      [] h.os = "linux" /\ h.arch = "x86_64" -> "-linux-x86_64.tar.gz"
      [] h.os = "linux" /\ h.arch = "aarch64" -> "-linux-aarch64.tar.gz"
      [] h.os = "windows" /\ h.arch = "x86_64" -> "-win-x64.zip"
      [] h.os = "windows" /\ h.arch = "aarch64" -> "-win-arm64.zip"
      [] OTHER -> ""

\* The name expected for version string s (a character and a semantic
\* version).
ExpectedName(h, s) ==
    <<"MAA-v">> \o SubSeq(s, 2, Len(s)) \o <<TargetSuffix(h)>>

UnsupportedErrors == {"Unsupported platform", "Unsupported architecture"}

\* What the claim says asset() returns for target h, version string s and
\* asset list `assets`.
AssetExpected(h, s, assets, out) ==
    LET found == {i \in 1..Len(assets) : assets[i].name = ExpectedName(h, s)}
    IN  IF TargetSuffix(h) = ""
        THEN out.tag = "err" /\ out.err \in UnsupportedErrors
        ELSE IF found = {} THEN out = Err("Asset not found")
        ELSE out = Ok(assets[CHOOSE i \in found : \A j \in found : i <= j])

\* C8 as stated: for every manifest, asset() returns the first asset named
\* as the naming scheme says, AssetNotFound when there is none, and the
\* unsupported-platform error on a target without a naming rule.
AssetResolvesForEveryManifest ==
    output.tag # "none" =>
        AssetExpected(input.h, input.vj.version, input.vj.assets, output)

\* C8, amended: so it is for every manifest whose version string is a
\* character of one byte followed by a semantic version; for every other
\* manifest (the version string is empty, its first character is longer
\* than one byte, or the rest is no semantic version) asset() fails
\* fatally on every target, before the target and the asset list are
\* looked at.
AssetResolvesForValidManifest ==
    output.tag # "none" =>
        IF /\ input.vj.version # <<>>
           /\ Head(input.vj.version) # "é"
           /\ IsSpelled(Tail(input.vj.version))
        THEN AssetExpected(input.h, input.vj.version, input.vj.assets, output)
        ELSE output.tag = "panic"

\* C8 witness: the first of two assets of the expected name is returned,
\* for a version string that begins with another character than "v".
AssetFirstOfTwo ==
    /\ output.tag = "ok"
    /\ Head(input.vj.version) = "x"
    /\ Len(input.vj.assets) = 2
    /\ input.vj.assets[1].name = input.vj.assets[2].name
    /\ input.vj.assets[1].size # input.vj.assets[2].size
    /\ output.val = input.vj.assets[1]

----------------------------------------------------------------------------
(* Asset::download on its own.                                             *)

PKG == <<"p", "k", "g">>

\* What source s sends: each source its own archive.
SentBy(s) == [kind |-> "archive", from |-> s]

\* What the cache held before: nothing, or a file of some length at the
\* asset's path, beside a file of another name or not.
OldFile == [kind |-> "archive", from |-> <<"disk", 0>>]
OtherFile == [name |-> <<"o">>, len |-> 1, content |-> OldFile]

InitDownload ==
    /\ MainIdle
    /\ ConfigIdle
    /\ \E size \in 0..MaxSize, n \in 0..MaxMirrors,
          dir \in {NoDir, EmptyDir, [exists |-> TRUE, files |-> {OtherFile}]}
                      \cup {[exists |-> TRUE,
                             files |-> {[name |-> PKG, len |-> k,
                                         content |-> OldFile]} \cup o] :
                               k \in 0..(MaxSize + 1),
                               o \in {{}, {OtherFile}}} :
        \E env \in DownloadEnvs(
                       MkAsset(PKG, size, n),
                       [s \in SourcesOf(MkAsset(PKG, size, n)) |->
                           SentBy(s)]) :
            input = [fn |-> "download", asset |-> MkAsset(PKG, size, n),
                     dir |-> dir, env |-> env]
    /\ output = [tag |-> "none"]

\* asset.download(dir, t); "killed" when the process was killed inside
\* the call.
DownloadCall ==
    /\ input.fn = "download"
    /\ output.tag = "none"
    /\ \E d \in {Asset_download(input.asset, input.dir, input.env)} :
           output' = [tag |-> IF d.out.tag = "interrupted" THEN "killed"
                              ELSE "returned",
                      out |-> d.out, cache |-> d.cache,
                      contacted |-> d.contacted, hit |-> d.hit]
    /\ UNCHANGED <<input, config, latest>>
    /\ UNCHANGED mainvars

NextDownload == DownloadCall

SpecDownload == InitDownload /\ [][NextDownload]_vars

\* The sources of the asset in the order the claim gives them.
ListedSources(asset) == <<asset.browser_download_url>> \o asset.mirrors

\* The download went to the network: the cached file was not taken and
\* the client and the runtime were built.
WentToNetwork ==
    /\ output.tag = "returned"
    /\ ~output.hit
    /\ input.env.client_ok
    /\ input.env.runtime_ok

\* C4: a download that goes to the network contacts the primary URL
\* first and then the mirrors in listed order, each only after all before
\* it failed; it stops at the first source that delivers, leaves what that
\* source sent at the cache path and returns the archive of it (an error
\* if the file does not open as an archive); it fails with "Failed to
\* download" exactly when the primary URL and every mirror failed, and
\* then every source was contacted.
DownloadTriesSourcesInOrder ==
    WentToNetwork =>
        LET all == ListedSources(input.asset)
            c == output.contacted
        IN  /\ Len(c) >= 1
            /\ Len(c) <= Len(all)
            /\ \A i \in 1..Len(c) : c[i] = all[i]
            /\ \A i \in 1..(Len(c) - 1) : c[i] \notin input.env.up
            /\ (c[Len(c)] \in input.env.up) =>
                   /\ output.out = Archive_try_from(SentBy(c[Len(c)]),
                                                    input.env.opens)
                   /\ \E f \in output.cache.files :
                          f.name = input.asset.name
                              /\ f.content = SentBy(c[Len(c)])
            /\ (output.out = Err("Failed to download")) <=>
                   (\A i \in 1..Len(all) : all[i] \notin input.env.up)
            /\ (output.out = Err("Failed to download")) => c = all
            /\ (output.out.tag = "ok") =>
                   (c[Len(c)] \in input.env.up /\ input.env.opens)

\* C4 witness: the primary URL and the first mirror failed and the second
\* mirror delivered.
DownloadFromSecondMirror ==
    /\ output.tag = "returned"
    /\ output.out.tag = "ok"
    /\ output.contacted = <<Primary, Mirror(1), Mirror(2)>>
    /\ output.out.val = SentBy(Mirror(2))

\* A file is at the asset's cache path and has the declared length.
SameLengthCached ==
    \E f \in input.dir.files :
        f.name = input.asset.name /\ f.len = input.asset.size

\* C5 as stated: the download contacts no source exactly when a file of
\* the declared length is at the cache path, whatever else is true of
\* that file; it then returns that file and leaves the cache as it was,
\* and otherwise it goes to the network.  The client and the runtime can
\* be built and the file opens as an archive.
DownloadSkipsNetworkIffSameLength ==
    (/\ output.tag = "returned"
     /\ input.env.client_ok
     /\ input.env.runtime_ok
     /\ input.env.opens) =>
        /\ (output.contacted = <<>>) <=> SameLengthCached
        /\ SameLengthCached =>
               /\ output.out = Ok(OldFile)
               /\ output.cache = input.dir
        /\ ~SameLengthCached => output.contacted # <<>>

\* A file is at the asset's cache path.
FileCached == \E f \in input.dir.files : f.name = input.asset.name

\* C12: a download that finds a file at the cache path whose metadata
\* cannot be read, at line 238 or at line 239, goes on to the network
\* fetch, whatever size the asset declares: it is no cache hit, and, the
\* client and the runtime built, a source is contacted and the outcome is
\* that of the sources (the archive, or the failure of all of them).
MetadataErrorIsCacheMiss ==
    (/\ output.tag = "returned"
     /\ FileCached
     /\ ~input.env.exists_ok \/ ~input.env.metadata_ok) =>
        /\ ~output.hit
        /\ (input.env.client_ok /\ input.env.runtime_ok) =>
               /\ output.contacted # <<>>
               /\ (output.out.tag = "ok") <=>
                      (input.env.up # {} /\ input.env.opens)

----------------------------------------------------------------------------
(* Asset::download twice for the same asset, as two operations in a row    *)
(* call it.                                                                *)

InitRetry ==
    /\ MainIdle
    /\ ConfigIdle
    /\ \E size \in 0..MaxSize, n \in 0..MaxMirrors,
          dir \in {NoDir, EmptyDir} :
        \E env1 \in DownloadEnvs(
                        MkAsset(PKG, size, n),
                        [s \in SourcesOf(MkAsset(PKG, size, n)) |->
                            SentBy(s)]),
           env2 \in DownloadEnvs(
                        MkAsset(PKG, size, n),
                        [s \in SourcesOf(MkAsset(PKG, size, n)) |->
                            SentBy(s)]) :
            /\ env1.exists_ok
            /\ env1.metadata_ok
            /\ env2.partial = -1
            /\ input = [fn |-> "retry", asset |-> MkAsset(PKG, size, n),
                        dir |-> dir, env1 |-> env1, env2 |-> env2]
    /\ output = [tag |-> "none"]

\* The first asset.download(dir, t): nothing is at the cache path.  A
\* first call killed inside is followed by the next process's call.
RetryFirst ==
    /\ input.fn = "retry"
    /\ output.tag = "none"
    /\ \E d \in {Asset_download(input.asset, input.dir, input.env1)} :
           output' = [tag |-> "first", first |-> d]
    /\ UNCHANGED <<input, config, latest>>
    /\ UNCHANGED mainvars

\* The next asset.download(dir, t), in the cache directory as the first
\* left it; a transfer that breaks off now leaves the file as it is.
RetrySecond ==
    /\ input.fn = "retry"
    /\ output.tag = "first"
    /\ \E d \in {Asset_download(input.asset, output.first.cache,
                                input.env2)} :
           output' = [tag |-> "second", first |-> output.first, second |-> d]
    /\ UNCHANGED <<input, config, latest>>
    /\ UNCHANGED mainvars

NextRetry ==
    \/ RetryFirst
    \/ RetrySecond

SpecRetry == InitRetry /\ [][NextRetry]_vars

\* The first download failed, or the process was killed inside it, after
\* it wrote a part of the archive.
FailedInPart ==
    /\ output.tag \in {"first", "second"}
    /\ output.first.out.tag \in {"err", "interrupted"}
    /\ input.env1.partial >= 0
    /\ input.env1.partial < input.asset.size

\* C14: a download that failed (or was killed) after it wrote a part of
\* the archive left that part at the cache path; the next download of the
\* same asset does not take it as a cache hit, whether the file's metadata
\* can be read or not: the client and the runtime built, it contacts the
\* primary URL again, then the mirrors, and what it returns, unless it is
\* killed, is the archive a source sent, never the part.
PartialFileIsNeverCacheHit ==
    FailedInPart =>
        /\ \E f \in output.first.cache.files :
               /\ f.name = input.asset.name
               /\ f.len = input.env1.partial
               /\ f.content = Junk
        /\ output.tag = "second" =>
               /\ ~output.second.hit
               /\ (input.env2.client_ok /\ input.env2.runtime_ok) =>
                      /\ output.second.contacted # <<>>
                      /\ output.second.contacted[1]
                             = input.asset.browser_download_url
                      /\ output.second.out.tag # "interrupted" =>
                             ((output.second.out.tag = "ok") <=>
                                  (input.env2.up # {} /\ input.env2.opens))
               /\ output.second.out.tag = "ok" =>
                      /\ output.second.contacted # <<>>
                      /\ output.second.out.val \in
                             {SentBy(s) : s \in input.env2.up}
                      /\ \A f \in output.second.cache.files :
                             f.name = input.asset.name =>
                                 /\ f.len = input.asset.size
                                 /\ f.content = output.second.out.val

\* C14 witness: the first download left a part that is not empty, the
\* second could not read the file's metadata and fetched the archive from
\* the mirror.
PartialFileFetchedAgain ==
    /\ FailedInPart
    /\ input.env1.partial > 0
    /\ output.tag = "second"
    /\ ~input.env2.metadata_ok
    /\ output.second.out = Ok(SentBy(Mirror(1)))
    /\ output.second.contacted = <<Primary, Mirror(1)>>

----------------------------------------------------------------------------
(* extract_mapper on its own.                                              *)

\* Relative and absolute entry paths of up to MaxDepth components: ".."
\* and the names "resource", library files of each platform, a library
\* name with the suffix inside, and names that are no library.
MapperPaths ==
    UNION {{r \o p :
               r \in {<<>>, <<RootDir>>},
               p \in [1..n ->
                        {Normal(name) :
                            name \in
                                {RESOURCE,
                                 MAA_CORE_NAME("linux"),
                                 <<"l", "i", "b", "x", ".", "s", "o", ".",
                                   "1">>,
                                 <<"x", ".", "s", "o">>,
                                 <<"l", "i", "b", "x">>,
                                 <<"x", ".", "d", "l", "l">>,
                                 <<"l", "i", "b", "x", ".", "d", "y", "l",
                                   "i", "b">>}}
                            \cup {ParentDir}]} : n \in 0..MaxDepth}

InitMapper ==
    /\ MainIdle
    /\ ConfigIdle
    /\ \E os \in {"linux", "windows", "macos"}, path \in MapperPaths,
          resource \in BOOLEAN :
        input = [fn |-> "mapper", os |-> os, path |-> path,
                 resource |-> resource]
    /\ output = [tag |-> "none"]

\* extract_mapper(path, lib_dir, resource_dir, resource)
MapperCall ==
    /\ input.fn = "mapper"
    /\ output.tag = "none"
    /\ output' = [tag |-> "returned",
                  val |-> extract_mapper(input.os, input.path, "lib_dir",
                                         "resource_dir", input.resource)]
    /\ UNCHANGED <<input, config, latest>>
    /\ UNCHANGED mainvars

NextMapper == MapperCall

SpecMapper == InitMapper /\ [][NextMapper]_vars

\* Name s begins with the platform's library prefix and holds the
\* platform's library suffix somewhere, character by character.
LooksLikeLibrary(os, s) ==
    LET p == DLL_PREFIX(os)
        x == DLL_SUFFIX(os)
    IN  /\ Len(p) <= Len(s)
        /\ \A i \in 1..Len(p) : s[i] = p[i]
        /\ \E k \in 0..(Len(s) - Len(x)) : \A j \in 1..Len(x) : s[k + j] = x[j]

ResourceRule(c, flag) == flag /\ c.kind = "Normal" /\ c.name = RESOURCE
LibraryRule(os, c) == c.kind = "Normal" /\ LooksLikeLibrary(os, c.name)

\* C6: the mapper's answer is that of the first component, in path order,
\* that matches a rule: for "resource" (flag set) the resource directory
\* joined with the components after it, for a library name the library
\* directory joined with that component alone; no destination when no
\* component matches; and nothing under the resource directory when the
\* flag is unset.
MapperTakesFirstMatch ==
    output.tag = "returned" =>
        LET path == input.path
            os == input.os
            flag == input.resource
            hits == {i \in 1..Len(path) :
                        ResourceRule(path[i], flag) \/ LibraryRule(os, path[i])}
        IN  /\ hits = {} => output.val = None
            /\ \A i \in hits :
                   (\A j \in hits : i <= j) =>
                       IF ResourceRule(path[i], flag)
                       THEN output.val =
                                Some(Join("resource_dir",
                                          SubSeq(path, i + 1, Len(path))))
                       ELSE output.val = Some(Join("lib_dir", <<path[i]>>))
            /\ ~flag => ~(output.val.some
                              /\ output.val.dest.base = "resource_dir")

\* C6 witness: a library name with the suffix inside, behind a component
\* that matches no rule and before "resource", goes to the library
\* directory.
MapperLibraryBeforeResource ==
    /\ output.tag = "returned"
    /\ input.os = "linux"
    /\ input.resource
    /\ input.path = <<Normal(<<"x", ".", "s", "o">>),
                      Normal(<<"l", "i", "b", "x", ".", "s", "o", ".", "1">>),
                      Normal(RESOURCE)>>
    /\ output.val = Some(Join("lib_dir",
                              <<Normal(<<"l", "i", "b", "x", ".", "s", "o",
                                         ".", "1">>)>>))

\* Path `rest`, followed from `depth` levels below a directory, never
\* leaves that directory: a parent-directory component is only taken
\* below it.
RECURSIVE StaysBelow(_, _)
StaysBelow(rest, depth) ==
    IF rest = <<>> THEN TRUE
    ELSE IF Head(rest).kind = "ParentDir"
    THEN depth > 0 /\ StaysBelow(Tail(rest), depth - 1)
    ELSE StaysBelow(Tail(rest), depth + 1)

\* C16: every destination the mapper returns is the library directory
\* joined with exactly one normal component, or a path that stays inside
\* the resource directory, also for entry paths with parent-directory
\* components before or after "resource".
MapperStaysInsideTrees ==
    (output.tag = "returned" /\ output.val.some) =>
        \/ /\ output.val.dest.base = "lib_dir"
           /\ Len(output.val.dest.rest) = 1
           /\ output.val.dest.rest[1].kind = "Normal"
        \/ /\ output.val.dest.base = "resource_dir"
           /\ StaysBelow(output.val.dest.rest, 0)

----------------------------------------------------------------------------
(* Config and its setters as a state machine.                              *)

\* Base URLs that the configuration file, the environment or a setter
\* may give: with and without "/" at the end, and empty.
ConfigUrls ==
    {DefaultApiUrl, DefaultDownloadUrl, <<"a">>, <<"a", "/">>, <<"b", "/">>,
     <<>>}

InitConfig ==
    /\ MainIdle
    /\ input = [fn |-> "none"]
    /\ output = [tag |-> "none"]
    /\ \E channel \in Channels, api_url \in ConfigUrls,
          download_url \in ConfigUrls, binary \in BOOLEAN :
        /\ config = [channel |-> channel, api_url |-> api_url,
                     download_url |-> download_url,
                     components |-> [binary |-> binary]]
        /\ latest = [channel |-> channel, api_url |-> api_url,
                     download_url |-> download_url,
                     components |-> [binary |-> binary], calls |-> <<>>]

\* config.set_channel(channel)
SetChannel ==
    /\ Len(latest.calls) < MaxCalls
    /\ \E channel \in Channels :
        /\ config' = set_channel(config, channel)
        /\ latest' = [latest EXCEPT !.channel = channel,
                                    !.calls = Append(@, "set_channel")]
    /\ UNCHANGED <<input, output>>
    /\ UNCHANGED mainvars

\* config.set_api_url(api_url)
SetApiUrl ==
    /\ Len(latest.calls) < MaxCalls
    /\ \E api_url \in ConfigUrls :
        /\ config' = set_api_url(config, api_url)
        /\ latest' = [latest EXCEPT !.api_url = api_url,
                                    !.calls = Append(@, "set_api_url")]
    /\ UNCHANGED <<input, output>>
    /\ UNCHANGED mainvars

\* config.set_download_url(download_url)
SetDownloadUrl ==
    /\ Len(latest.calls) < MaxCalls
    /\ \E download_url \in ConfigUrls :
        /\ config' = set_download_url(config, download_url)
        /\ latest' = [latest EXCEPT !.download_url = download_url,
                                    !.calls = Append(@, "set_download_url")]
    /\ UNCHANGED <<input, output>>
    /\ UNCHANGED mainvars

NextConfig ==
    \/ SetChannel
    \/ SetApiUrl
    \/ SetDownloadUrl

SpecConfig == InitConfig /\ [][NextConfig]_vars

LowercaseName == [Stable |-> "stable", Beta |-> "beta", Alpha |-> "alpha"]

ReleaseTags == {<<"v0.3.12">>, <<"v", "1">>}
ReleaseNames == {<<"maa_cli.zip">>, <<"m">>}

\* C10: after any calls of the setters, api_url() is the normalized base
\* last given for the API, the lowercase name of the channel last given
\* and ".json"; download_url(tag, name) is the normalized base last given
\* for downloads, the tag, "/" and the name; and every field holds what
\* its own setter was last given (its first value if it was never set).
ConfigUrlsFollowLatest ==
    /\ Config_api_url(config)
           = normalize_url(latest.api_url)
                 \o <<LowercaseName[latest.channel]>> \o <<".json">>
    /\ \A tag \in ReleaseTags, name \in ReleaseNames :
           Config_download_url(config, tag, name)
               = normalize_url(latest.download_url) \o tag \o <<"/">>
                     \o name
    /\ config.channel = latest.channel
    /\ config.api_url = latest.api_url
    /\ config.download_url = latest.download_url
    /\ config.components = latest.components

\* C10 witness: the API base and the channel were set, then the download
\* base, to values that differ; the API URL is still that of the first two.
ConfigSetAllThree ==
    /\ latest.calls = <<"set_api_url", "set_channel", "set_download_url">>
    /\ latest.api_url = <<"a">>
    /\ latest.download_url = <<"b", "/">>
    /\ Config_api_url(config) = <<"a", "/", "alpha", ".json">>
    /\ Config_download_url(config, <<"v0.3.12">>, <<"maa_cli.zip">>)
           = <<"b", "/", "v0.3.12", "/", "maa_cli.zip">>

====
